---- MODULE Spec2Model ----
(***************************************************************************)
(* Model of the inference service in src/backend/app.py: the start-up      *)
(* artifact loader and the four HTTP handlers.                             *)
(*                                                                         *)
(* Numbers: probabilities and thresholds are Python floats; they are       *)
(* modelled as integers counting hundredths (50 is 0.5, 150 is 1.5).       *)
(* Column names are sequences of one-character strings so that a           *)
(* case-insensitive comparison is computed, not assumed.                   *)
(* Python's None is the record NoneObj; every other object is a record     *)
(* with a different "kind".                                                *)
(***************************************************************************)
EXTENDS Integers, Sequences, FiniteSets, TLC

VARIABLES pc, artifact, tfile, MODEL, PREPROC, THRESHOLD, CALIBRATED, resp

vars == <<pc, artifact, tfile, MODEL, PREPROC, THRESHOLD, CALIBRATED, resp>>

globals == <<MODEL, PREPROC, THRESHOLD, CALIBRATED>>

(***************************************************************************)
(* Bounds                                                                  *)
(***************************************************************************)
MaxCoefLen == 4

CoefValues == {-2, 1}

FeatureValues == {1, 2}

AgeValues == {35}

ThresholdNumbers == {-20, 73, 150}

(***************************************************************************)
(* Python objects                                                          *)
(***************************************************************************)
NoneObj == [kind |-> "None"]

IsNone(x) == x.kind = "None"

DefaultThreshold == 50

(* column names *)
age == <<"a", "g", "e">>
Age == <<"A", "g", "e">>
AGE == <<"A", "G", "E">>
aGe == <<"a", "G", "e">>
xcol == <<"x">>

AgeSpellings == {age, Age, AGE, aGe}

FeatureKeys == AgeSpellings \cup {xcol}

LowerChar(c) ==
    CASE c = "A" -> "a"
      [] c = "G" -> "g"
      [] c = "E" -> "e"
      [] OTHER -> c

Lower(s) == [i \in DOMAIN s |-> LowerChar(s[i])]

ValuesOf(k) == IF k = xcol THEN FeatureValues ELSE AgeValues

(* a request body: features is a mapping from names to scalars *)
FeatureMaps ==
    UNION { {f \in [K -> FeatureValues \cup AgeValues] : \A k \in K : f[k] \in ValuesOf(k)} :
              K \in SUBSET FeatureKeys }

(***************************************************************************)
(* The artifact store at start-up                                          *)
(***************************************************************************)
SeqsUpTo(S, n) == UNION {[1..k -> S] : k \in 0..n}

CoefVectors == SeqsUpTo(CoefValues, MaxCoefLen)

(* a fitted preprocessing stage: get_feature_names_out may be absent,      *)
(* may raise, or returns nNames names                                      *)
Preprocessors ==
    { [kind |-> "pre", hasNames |-> TRUE, namesRaise |-> FALSE, nNames |-> 2],
      [kind |-> "pre", hasNames |-> TRUE, namesRaise |-> TRUE, nNames |-> 0],
      [kind |-> "pre", hasNames |-> FALSE, namesRaise |-> FALSE, nNames |-> 0] }

ProbaTableA == [v \in FeatureValues |-> IF v = 1 THEN 50 ELSE 73]

ProbaTableB == [v \in FeatureValues |-> IF v = 1 THEN 0 ELSE 100]

(* what joblib.load can return:                                            *)
(*   shape   "calibrated": has .estimator with .named_steps                *)
(*           "pipeline":   has .named_steps                                *)
(*           "bare":       neither                                         *)
(*   stepsBroken: named_steps.get raises                                   *)
(*   pre:    named_steps.get("pre")                                        *)
(*   hasCoef, coef: the attribute coef_ and its first row                  *)
(*   hasCalAttr: the attribute calibrated_classifiers                      *)
(*   table:  the probability the fitted model gives for a value of x       *)
Wrapped ==
    { [kind |-> "model", shape |-> s, stepsBroken |-> FALSE, pre |-> p,
       hasCoef |-> FALSE, coef |-> <<>>, hasCalAttr |-> FALSE, table |-> ProbaTableA] :
         s \in {"calibrated", "pipeline"}, p \in Preprocessors \cup {NoneObj} }

Broken ==
    { [kind |-> "model", shape |-> "calibrated", stepsBroken |-> TRUE, pre |-> NoneObj,
       hasCoef |-> FALSE, coef |-> <<>>, hasCalAttr |-> TRUE, table |-> ProbaTableB] }

BareWith(C) ==
    { [kind |-> "model", shape |-> "bare", stepsBroken |-> FALSE, pre |-> NoneObj,
       hasCoef |-> TRUE, coef |-> c, hasCalAttr |-> FALSE, table |-> ProbaTableA] :
         c \in C }

NamedLinear ==
    { [kind |-> "model", shape |-> "pipeline", stepsBroken |-> FALSE,
       pre |-> [kind |-> "pre", hasNames |-> TRUE, namesRaise |-> FALSE, nNames |-> 2],
       hasCoef |-> TRUE, coef |-> c, hasCalAttr |-> TRUE, table |-> ProbaTableB] :
         c \in {<<1, -2>>, <<0, 1, -2>>} }

Opaque ==
    { [kind |-> "model", shape |-> "bare", stepsBroken |-> FALSE, pre |-> NoneObj,
       hasCoef |-> FALSE, coef |-> <<>>, hasCalAttr |-> FALSE, table |-> ProbaTableB] }

ModelObjects ==
    Wrapped \cup Broken \cup BareWith(SeqsUpTo(CoefValues, 1)) \cup NamedLinear \cup Opaque

(* the artifacts the explanation generator is exercised on: every          *)
(* coefficient row up to MaxCoefLen                                        *)
ExplainModelObjects == Wrapped \cup BareWith(CoefVectors) \cup NamedLinear \cup Opaque

(* artifacts/model_final.pkl and the joblib import *)
ArtifactStates ==
    { [joblib |-> TRUE, file |-> "absent", obj |-> NoneObj],
      [joblib |-> FALSE, file |-> "absent", obj |-> NoneObj],
      [joblib |-> TRUE, file |-> "corrupt", obj |-> NoneObj] }
    \cup { [joblib |-> TRUE, file |-> "present", obj |-> m] : m \in ModelObjects }
    \cup { [joblib |-> FALSE, file |-> "present", obj |-> m] : m \in Opaque }

(* artifacts/threshold.json *)
ThresholdFileStates ==
    { [file |-> f, value |-> 0] : f \in {"absent", "unparseable", "missing_key"} }
    \cup { [file |-> "valid", value |-> t] : t \in ThresholdNumbers }

(***************************************************************************)
(* _load_artifacts                                                         *)
(***************************************************************************)
HasNamedSteps(m) == m.shape = "pipeline"

HasEstimatorWithSteps(m) == m.shape = "calibrated"

(* the body of the first try block, up to the point where it ends or an    *)
(* exception leaves it: the globals as assigned so far                     *)
ModelTryBody(a, model0, preproc0) ==
    IF ~a.joblib
    THEN [exc |-> TRUE, MODEL |-> model0, PREPROC |-> preproc0]
    ELSE IF a.file = "absent"
    THEN [exc |-> FALSE, MODEL |-> NoneObj, PREPROC |-> preproc0]
    ELSE IF a.file = "corrupt"
    THEN [exc |-> TRUE, MODEL |-> model0, PREPROC |-> preproc0]
    ELSE IF HasEstimatorWithSteps(a.obj) \/ HasNamedSteps(a.obj)
    THEN IF a.obj.stepsBroken
         THEN [exc |-> TRUE, MODEL |-> a.obj, PREPROC |-> preproc0]
         ELSE [exc |-> FALSE, MODEL |-> a.obj, PREPROC |-> a.obj.pre]
    ELSE [exc |-> FALSE, MODEL |-> a.obj, PREPROC |-> NoneObj]

(* try ... except Exception: MODEL = None; PREPROC = None *)
LoadModelSection(a, model0, preproc0) ==
    LET b == ModelTryBody(a, model0, preproc0)
    IN  IF b.exc
        THEN [exc |-> FALSE, MODEL |-> NoneObj, PREPROC |-> NoneObj]
        ELSE b

(* float(json.load(open(tpath))["threshold"]) *)
ParseThreshold(t) ==
    IF t.file = "valid"
    THEN [exc |-> FALSE, value |-> t.value]
    ELSE [exc |-> TRUE, value |-> 0]

(* the threshold section without its except clause *)
LoadThresholdSectionUncaught(t) ==
    IF t.file = "absent"
    THEN [exc |-> FALSE, THRESHOLD |-> DefaultThreshold]
    ELSE LET r == ParseThreshold(t)
         IN  [exc |-> r.exc, THRESHOLD |-> IF r.exc THEN DefaultThreshold ELSE r.value]

LoadThresholdSection(t) ==
    IF t.file = "absent"
    THEN [exc |-> FALSE, THRESHOLD |-> DefaultThreshold]
    ELSE LET r == ParseThreshold(t)
         IN  IF r.exc
             THEN [exc |-> FALSE, THRESHOLD |-> DefaultThreshold]
             ELSE [exc |-> FALSE, THRESHOLD |-> r.value]

(* hasattr(MODEL, "calibrated_classifiers") *)
HasCalibratedClassifiers(m) == ~IsNone(m) /\ m.hasCalAttr

(* isinstance(MODEL, object): every Python value, None included *)
IsInstanceOfObject(m) == m.kind \in {"None", "model"}

(* the flag from the attribute test alone *)
CalibratedFlagAttrOnly(m) == HasCalibratedClassifiers(m)

CalibratedFlag(m) == HasCalibratedClassifiers(m) \/ IsInstanceOfObject(m)

load_artifacts ==
    /\ pc = "startup"
    /\ LET ms == LoadModelSection(artifact, MODEL, PREPROC)
           ts == LoadThresholdSection(tfile)
       IN  /\ MODEL' = ms.MODEL
           /\ PREPROC' = ms.PREPROC
           /\ THRESHOLD' = IF ms.exc THEN THRESHOLD ELSE ts.THRESHOLD
           /\ CALIBRATED' = IF ms.exc \/ ts.exc THEN CALIBRATED ELSE CalibratedFlag(ms.MODEL)
           /\ pc' = IF ms.exc \/ ts.exc THEN "crashed" ELSE "serving"
    /\ UNCHANGED <<artifact, tfile, resp>>

(***************************************************************************)
(* Responses.  Every handler leaves its response in resp; an exception     *)
(* that leaves a handler is the framework's 500 response.                  *)
(***************************************************************************)
EmptyMap == << >>

InternalServerError(ep, f, at) ==
    [endpoint |-> ep, status |-> 500, detail |-> <<"Internal Server Error">>,
     features |-> f, invoked |-> FALSE, frame |-> EmptyMap, raised |-> at]

(***************************************************************************)
(* GET /health                                                             *)
(***************************************************************************)
health ==
    /\ pc = "serving"
    /\ resp' = [endpoint |-> "health", status |-> 200, model_ready |-> ~IsNone(MODEL)]
    /\ UNCHANGED <<pc, artifact, tfile, globals>>

(***************************************************************************)
(* GET /model-info: static/model_info.json as found at request time        *)
(***************************************************************************)
ModelInfoFileStates == {"absent", "present", "corrupt"}

ModelInfoResponse(file) ==
    IF file = "absent"
    THEN [endpoint |-> "model-info", status |-> 500, detail |-> <<"model_info.json missing">>]
    ELSE IF file = "corrupt"
    THEN [endpoint |-> "model-info", status |-> 500, detail |-> <<"Internal Server Error">>]
    ELSE [endpoint |-> "model-info", status |-> 200, detail |-> <<"model_info.json">>]

model_info ==
    /\ pc = "serving"
    /\ \E file \in ModelInfoFileStates : resp' = ModelInfoResponse(file)
    /\ UNCHANGED <<pc, artifact, tfile, globals>>

(***************************************************************************)
(* GET /metrics: the two metrics files as found at request time            *)
(***************************************************************************)
OverallKeys == {"acc", "prec", "rec", "f1", "auc"}

FairnessKeys == {"SPD", "EOD", "FPR_diff"}

MetricValues == {7}

(* what a metrics file holds: no key, a performance key, a fairness key     *)
(* with a key of neither group, or all three                               *)
FileKeySets == {{}, {"acc"}, {"SPD", "n"}, {"acc", "SPD", "n"}}

MetricMaps == UNION {[K -> MetricValues] : K \in FileKeySets}

MetricsFileStates ==
    { [file |-> "absent", m |-> EmptyMap], [file |-> "corrupt", m |-> EmptyMap] }
    \cup { [file |-> "present", m |-> m] : m \in MetricMaps }

Restrict(m, K) == [k \in (DOMAIN m) \cap K |-> m[k]]

(* json.load(open(path)) if os.path.exists(path) else {} *)
(* json.load(open(path)) without the os.path.exists test *)
LoadMetricsNoExistsCheck(fs) ==
    IF fs.file = "present"
    THEN [exc |-> FALSE, m |-> fs.m]
    ELSE [exc |-> TRUE, m |-> EmptyMap]

LoadMetrics(fs) ==
    IF fs.file = "absent"
    THEN [exc |-> FALSE, m |-> EmptyMap]
    ELSE IF fs.file = "corrupt"
    THEN [exc |-> TRUE, m |-> EmptyMap]
    ELSE [exc |-> FALSE, m |-> fs.m]

split(m) ==
    IF DOMAIN m = {}
    THEN [overall |-> EmptyMap, fairness |-> EmptyMap]
    ELSE [overall |-> Restrict(m, OverallKeys), fairness |-> Restrict(m, FairnessKeys)]

MetricsResponse(bfs, afs) ==
    LET before == LoadMetrics(bfs)
        after == LoadMetrics(afs)
    IN  IF before.exc \/ after.exc
        THEN [endpoint |-> "metrics", status |-> 500, detail |-> <<"Internal Server Error">>,
              bfile |-> bfs, afile |-> afs]
        ELSE [endpoint |-> "metrics", status |-> 200,
              overall_before |-> split(before.m).overall,
              overall_after |-> split(after.m).overall,
              fairness_before |-> split(before.m).fairness,
              fairness_after |-> split(after.m).fairness,
              bfile |-> bfs, afile |-> afs]

metrics ==
    /\ pc = "serving"
    /\ \E bfs \in MetricsFileStates, afs \in MetricsFileStates :
          resp' = MetricsResponse(bfs, afs)
    /\ UNCHANGED <<pc, artifact, tfile, globals>>

(***************************************************************************)
(* _drop_fairness_columns                                                  *)
(***************************************************************************)
Drop(df, col) ==
    IF col \in DOMAIN df
    THEN [c \in (DOMAIN df) \ {col} |-> df[c]]
    ELSE df

drop_fairness_columns(df) == Drop(Drop(Drop(df, age), Age), AGE)

(***************************************************************************)
(* _explain_linear                                                         *)
(***************************************************************************)
Abs(n) == IF n < 0 THEN -n ELSE n

(* np.argsort(np.abs(coefs)): positions in ascending order of magnitude,   *)
(* equal magnitudes in index order; indices count from 1 here              *)
RankAbs(c, i) ==
    1 + Cardinality({j \in DOMAIN c :
                        \/ Abs(c[j]) < Abs(c[i])
                        \/ (Abs(c[j]) = Abs(c[i]) /\ j < i)})

ArgsortAbs(c) == [p \in 1..Len(c) |-> CHOOSE i \in DOMAIN c : RankAbs(c, i) = p]

(* s[::-1] *)
Reversed(s) == [p \in 1..Len(s) |-> s[Len(s) + 1 - p]]

TopN == 3

(* s[:n] *)
FirstN(s, n) == [p \in 1..(IF Len(s) < n THEN Len(s) ELSE n) |-> s[p]]

(* np.argsort(np.abs(coefs))[::-1][:3] *)
TopIdx(c) == FirstN(Reversed(ArgsortAbs(c)), TopN)

StaticMessage(text) == [kind |-> "static", text |-> text]

Impact(namesFrom, i, coef) ==
    [kind |-> "impact", names |-> namesFrom, idx |-> i,
     direction |-> IF coef > 0 THEN "up" ELSE "down"]

(* the body of the try block: exc is an exception leaving it *)
ExplainTryBody(model, preproc) ==
    LET fromPre == ~IsNone(preproc) /\ preproc.hasNames
        namesExc == IF fromPre THEN preproc.namesRaise ELSE ~model.hasCoef
        nNames == IF fromPre THEN preproc.nNames ELSE Len(model.coef)
        namesFrom == IF fromPre THEN "preprocessor" ELSE "synthetic"
        top == TopIdx(model.coef)
    IN  IF namesExc
        THEN [exc |-> TRUE, msgs |-> << >>]
        ELSE IF ~model.hasCoef
        THEN [exc |-> FALSE, msgs |-> <<StaticMessage("Model coefficients not available.")>>]
        ELSE IF \E p \in DOMAIN top : top[p] > nNames
        THEN [exc |-> TRUE, msgs |-> << >>]
        ELSE [exc |-> FALSE,
              msgs |-> [p \in DOMAIN top |-> Impact(namesFrom, top[p], model.coef[top[p]])]]

(* the body without its except clause *)
explain_linear_uncaught(model, preproc) == ExplainTryBody(model, preproc)

explain_linear(model, preproc) ==
    LET b == ExplainTryBody(model, preproc)
    IN  IF b.exc
        THEN [exc |-> FALSE,
              msgs |-> <<StaticMessage("Explanations unavailable; showing probability only.")>>]
        ELSE b

(***************************************************************************)
(* POST /predict                                                           *)
(***************************************************************************)
(* pd.DataFrame([req.features]): one row, one column per key.  The call    *)
(* is a library call made outside the handler's try block; ok = FALSE is   *)
(* the call raising.                                                       *)
DataFrame(f, ok) ==
    IF ok THEN [exc |-> FALSE, df |-> f] ELSE [exc |-> TRUE, df |-> EmptyMap]

(* float(MODEL.predict_proba(X_raw)[:, 1][0]): the fitted model needs its  *)
(* input column and raises without it                                      *)
PredictProba(model, X) ==
    IF IsNone(model)
    THEN [exc |-> TRUE, proba |-> 0]
    ELSE IF xcol \notin DOMAIN X
    THEN [exc |-> TRUE, proba |-> 0]
    ELSE [exc |-> FALSE, proba |-> model.table[X[xcol]]]

(* int(proba > THRESHOLD) *)
LabelStrict(proba, threshold) == IF proba > threshold THEN 1 ELSE 0

(* int(proba >= THRESHOLD) *)
Label(proba, threshold) == IF proba >= threshold THEN 1 ELSE 0

NotReadyResponse(f) ==
    [endpoint |-> "predict", status |-> 200, detail |-> << >>,
     proba |-> 0, label |-> 0, threshold |-> THRESHOLD, calibrated |-> CALIBRATED,
     explanations |-> <<StaticMessage("Model not loaded. Add artifacts.")>>,
     model_ready |-> FALSE,
     features |-> f, invoked |-> FALSE, frame |-> EmptyMap, raised |-> "none"]

PredictionFailed(f, X, at) ==
    [endpoint |-> "predict", status |-> 400, detail |-> <<"Prediction failed: ", at>>,
     features |-> f, invoked |-> TRUE, frame |-> X, raised |-> at]

ReadyPath(f, ok) ==
    LET built == DataFrame(f, ok)
        X_raw == drop_fairness_columns(built.df)
        p == PredictProba(MODEL, X_raw)
        e == explain_linear(MODEL, PREPROC)
    IN  IF built.exc
        THEN InternalServerError("predict", f, "frame")
        ELSE IF p.exc
        THEN PredictionFailed(f, X_raw, "predict_proba")
        ELSE IF e.exc
        THEN PredictionFailed(f, X_raw, "explain")
        ELSE [endpoint |-> "predict", status |-> 200, detail |-> << >>,
              proba |-> p.proba, label |-> Label(p.proba, THRESHOLD),
              threshold |-> THRESHOLD, calibrated |-> CALIBRATED,
              explanations |-> e.msgs, model_ready |-> TRUE,
              features |-> f, invoked |-> TRUE, frame |-> X_raw, raised |-> "none"]

(* the handler without the MODEL is None test *)
HandlePredictNoGuard(f, ok) == ReadyPath(f, ok)

HandlePredict(f, ok) ==
    IF IsNone(MODEL) THEN NotReadyResponse(f) ELSE ReadyPath(f, ok)

(* a handler that drops the model when a prediction fails *)
predictResetsOnFailure ==
    /\ pc = "serving"
    /\ \E f \in FeatureMaps, ok \in BOOLEAN :
          /\ resp' = HandlePredict(f, ok)
          /\ MODEL' = IF resp'.status = 200 THEN MODEL ELSE NoneObj
    /\ UNCHANGED <<pc, artifact, tfile, PREPROC, THRESHOLD, CALIBRATED>>

predict ==
    /\ pc = "serving"
    /\ \E f \in FeatureMaps, ok \in BOOLEAN : resp' = HandlePredict(f, ok)
    /\ UNCHANGED <<pc, artifact, tfile, globals>>

(***************************************************************************)
(* The process: module globals as assigned on lines 9-12, any artifact     *)
(* store, then the loader once, then requests in any order                 *)
(***************************************************************************)
NoResponse == [endpoint |-> "none", status |-> 0]

Init ==
    /\ pc = "startup"
    /\ artifact \in ArtifactStates
    /\ tfile \in ThresholdFileStates
    /\ MODEL = NoneObj
    /\ PREPROC = NoneObj
    /\ THRESHOLD = DefaultThreshold
    /\ CALIBRATED = TRUE
    /\ resp = NoResponse

Next ==
    \/ load_artifacts
    \/ health
    \/ model_info
    \/ metrics
    \/ predict

Spec == Init /\ [][Next]_vars

(***************************************************************************)
(* The same process started on each artifact of ExplainModelObjects with   *)
(* no threshold file, serving /predict only                                *)
(***************************************************************************)
InitExplain ==
    /\ pc = "startup"
    /\ artifact \in { [joblib |-> TRUE, file |-> "present", obj |-> m] : m \in ExplainModelObjects }
    /\ tfile = [file |-> "absent", value |-> 0]
    /\ MODEL = NoneObj
    /\ PREPROC = NoneObj
    /\ THRESHOLD = DefaultThreshold
    /\ CALIBRATED = TRUE
    /\ resp = NoResponse

NextExplain ==
    \/ load_artifacts
    \/ predict

SpecExplain == InitExplain /\ [][NextExplain]_vars

(***************************************************************************)
(* Properties                                                              *)
(***************************************************************************)
PredictOk == resp.endpoint = "predict" /\ resp.status = 200

(* C1: in every /predict response with model_ready = true, label = 1 if    *)
(* and only if proba >= threshold, for the proba and threshold carried in  *)
(* that response.                                                          *)
C1_LabelIffProbaAtLeastThreshold ==
    (PredictOk /\ resp.model_ready) =>
        ((resp.label = 1) <=> (resp.proba >= resp.threshold))

C1_Witness ==
    /\ PredictOk
    /\ resp.model_ready
    /\ resp.proba = resp.threshold
    /\ resp.label = 1

(* C2: when the model artifact file was absent at start-up, every /predict *)
(* response is a successful one with model_ready = false, proba = 0.0 and  *)
(* label = 0, whatever the features.                                       *)
C2_AbsentArtifactNotReady ==
    (artifact.file = "absent" /\ resp.endpoint = "predict") =>
        /\ resp.status = 200
        /\ resp.model_ready = FALSE
        /\ resp.proba = 0
        /\ resp.label = 0

C2_Witness ==
    /\ artifact.file = "absent"
    /\ resp.endpoint = "predict"
    /\ xcol \in DOMAIN resp.features
    /\ THRESHOLD <= 0

(* C3: no column whose name matches "age" case-insensitively is in the     *)
(* frame handed to the model's probability function.                       *)
C3_NoAgeColumnReachesModel ==
    (resp.endpoint = "predict" /\ resp.invoked) =>
        \A k \in DOMAIN resp.frame : Lower(k) # age

(* C4: with a model loaded, every exception raised while /predict builds   *)
(* the frame, drops the age columns, invokes the model or computes the     *)
(* label is answered with HTTP 400 and a detail starting "Prediction       *)
(* failed".                                                                *)
C4_EveryExceptionIs400 ==
    (resp.endpoint = "predict" /\ ~IsNone(MODEL) /\ resp.raised # "none") =>
        /\ resp.status = 400
        /\ resp.detail[1] = "Prediction failed: "

ModelLoadFails(a) ==
    \/ ~a.joblib
    \/ a.file = "corrupt"
    \/ /\ a.file = "present"
       /\ a.obj.shape \in {"calibrated", "pipeline"}
       /\ a.obj.stepsBroken

(* C5: _load_artifacts never raises; a failure while loading the model or  *)
(* extracting the preprocessor leaves MODEL None, and a threshold file     *)
(* that is absent, unparseable or without the key leaves THRESHOLD at 0.5. *)
C5_LoaderNeverRaises ==
    /\ pc # "crashed"
    /\ pc = "serving" =>
        /\ ModelLoadFails(artifact) => IsNone(MODEL)
        /\ tfile.file \in {"absent", "unparseable", "missing_key"} =>
              THRESHOLD = DefaultThreshold

C5_Witness ==
    /\ pc = "serving"
    /\ artifact.file = "present"
    /\ ModelLoadFails(artifact)
    /\ IsNone(MODEL)
    /\ tfile.file = "unparseable"
    /\ THRESHOLD = DefaultThreshold

(* C6: after start-up the threshold is in [0,1], and so is the threshold   *)
(* field of every /predict response.                                       *)
C6_ThresholdInUnitInterval ==
    /\ pc = "serving" => (0 <= THRESHOLD /\ THRESHOLD <= 100)
    /\ PredictOk => (0 <= resp.threshold /\ resp.threshold <= 100)

MetricsEmptyFor(fs, overall, fairness) ==
    fs.file = "absent" => (overall = EmptyMap /\ fairness = EmptyMap)

MetricsKeptFor(fs, overall, fairness) ==
    fs.file = "present" =>
        /\ overall = Restrict(fs.m, OverallKeys)
        /\ fairness = Restrict(fs.m, FairnessKeys)

(* C7: /metrics fails only on an unreadable file, never on a missing one;  *)
(* the two mappings of a missing file are empty and the two of a readable  *)
(* file are still returned.                                                *)
C7_MissingMetricsFilesGiveEmptyMappings ==
    resp.endpoint = "metrics" =>
        /\ resp.status = 200 \/ resp.bfile.file = "corrupt" \/ resp.afile.file = "corrupt"
        /\ resp.status = 200 =>
              /\ MetricsEmptyFor(resp.bfile, resp.overall_before, resp.fairness_before)
              /\ MetricsEmptyFor(resp.afile, resp.overall_after, resp.fairness_after)
              /\ MetricsKeptFor(resp.bfile, resp.overall_before, resp.fairness_before)
              /\ MetricsKeptFor(resp.afile, resp.overall_after, resp.fairness_after)

C7_Witness ==
    /\ resp.endpoint = "metrics"
    /\ resp.status = 200
    /\ resp.bfile.file = "absent"
    /\ resp.afile.file = "present"
    /\ resp.overall_before = EmptyMap
    /\ DOMAIN resp.overall_after = {"acc"}
    /\ DOMAIN resp.fairness_after = {"SPD"}

(* C8: once the loader has run, no request changes MODEL, PREPROC,         *)
(* THRESHOLD or CALIBRATED, and every /health and successful /predict      *)
(* response reports model_ready as "MODEL is not None".                    *)
C8_RequestsLeaveGlobalsAlone ==
    [][pc = "serving" =>
          /\ globals' = globals
          /\ (resp'.endpoint = "health" \/ (resp'.endpoint = "predict" /\ resp'.status = 200))
                => resp'.model_ready = ~IsNone(MODEL)]_vars

C8_Witness ==
    /\ resp.endpoint = "predict"
    /\ resp.status = 400
    /\ ~IsNone(MODEL)

IsStaticOnly(ex) == Len(ex) = 1 /\ ex[1].kind = "static"

IsRanking(ex, coef) ==
    /\ Len(ex) = (IF Len(coef) < 3 THEN Len(coef) ELSE 3)
    /\ \A p \in DOMAIN ex : ex[p].kind = "impact" /\ ex[p].idx \in DOMAIN coef
    /\ \A p, q \in DOMAIN ex :
          p < q => (ex[p].idx # ex[q].idx /\ Abs(coef[ex[p].idx]) >= Abs(coef[ex[q].idx]))
    /\ \A p \in DOMAIN ex : \A j \in DOMAIN coef :
          (\A q \in DOMAIN ex : ex[q].idx # j) => Abs(coef[j]) <= Abs(coef[ex[p].idx])

(* C9: whenever the model's probability function succeeds, /predict        *)
(* answers with model_ready = true and the computed proba and label; the   *)
(* explanations are one static message when the coefficients are missing   *)
(* or a step of the explanation fails, and otherwise at most 3 entries:    *)
(* the largest absolute coefficients, largest first.                       *)
C9_ExplanationNeverFailsPredict ==
    (resp.endpoint = "predict" /\ resp.invoked /\ ~PredictProba(MODEL, resp.frame).exc) =>
        /\ resp.status = 200
        /\ resp.model_ready
        /\ resp.proba = MODEL.table[resp.frame[xcol]]
        /\ resp.label = (IF resp.proba >= THRESHOLD THEN 1 ELSE 0)
        /\ IsStaticOnly(resp.explanations) \/ IsRanking(resp.explanations, MODEL.coef)
        /\ ~MODEL.hasCoef => IsStaticOnly(resp.explanations)
        /\ (~IsNone(PREPROC) /\ PREPROC.hasNames /\ PREPROC.namesRaise)
              => IsStaticOnly(resp.explanations)
        /\ (MODEL.hasCoef /\ IsNone(PREPROC)) => IsRanking(resp.explanations, MODEL.coef)

C9_Witness ==
    /\ PredictOk
    /\ resp.model_ready
    /\ Len(MODEL.coef) = 4
    /\ Len(resp.explanations) = 3
    /\ resp.explanations[1].idx = 4
    /\ resp.explanations[1].direction = "down"

(* C10: calibrated is true in every /predict response, model loaded or not *)
(* and whatever kind of object the model is.                               *)
C10_CalibratedAlwaysTrue ==
    /\ pc = "serving" => CALIBRATED = TRUE
    /\ PredictOk => resp.calibrated = TRUE

C10_Witness ==
    /\ PredictOk
    /\ resp.model_ready
    /\ MODEL.shape = "pipeline"
    /\ ~MODEL.hasCalAttr
    /\ resp.calibrated = TRUE

====
